---- MODULE Spec2Model ----
(***************************************************************************)
(* Model of src/app/page.tsx: the Home component's fetch / retry /        *)
(* failover chain (fetchCryptoData) and its polling effect (useEffect).   *)
(*                                                                         *)
(* A "chain" is one top-level call of fetchCryptoData together with the   *)
(* recursive calls it returns; it is the spec's "cycle".  JavaScript runs *)
(* the code between two awaits atomically, so every action below is one   *)
(* such run-to-await segment.                                             *)
(* The wording of a JSON SyntaxError depends on the engine that runs the  *)
(* page; the engine is chosen in Init and fixed for the run.              *)
(***************************************************************************)
EXTENDS Integers, Sequences, FiniteSets, TLC

\* ------------------------------------------------------------------ bounds
MaxCycles == 3          \* chains (top-level fetchCryptoData calls) started
MaxRequests == 4        \* network requests issued in all, under Spec

\* --------------------------------------------------------- program constants
INITIAL_RETRY_DELAY == 2000
MAX_RETRIES == 5
RATE_LIMIT_DELAY == 5000

Null == "<null>"

\* ------------------------------------------------------------------ inputs
\* One attempt's raw result: fetchWithTimeout either throws (abort after the
\* 20 s deadline, or a transport error) or returns a response.
Statuses == {200, 403, 404, 429, 500}
Bodies == {"array1", "array2", "empty", "object",
           "text", "textDenied", "textInvalid", "textRate", "textPerm",
           "errRate", "errDenied", "errInvalid", "errOther"}

\* the bodies that are not JSON, and their text
TextBodies == {"text", "textDenied", "textInvalid", "textRate", "textPerm"}

RawText(body) ==
    CASE body = "textDenied" -> "Access denied"
      [] body = "textInvalid" -> "Invalid data"
      [] body = "textRate" -> "Rate limit exceeded"
      [] body = "textPerm" -> "API permissions"
      [] OTHER -> "<html>Service Unavailable</html>"

\* The JavaScript engine decides the wording of the SyntaxError that
\* response.json() rejects with: V8 up to 10 names the token and its
\* position, V8 from 11 on quotes the source text.
JsonEngines == {"v8_10", "v8_11"}
Outcomes ==
    [kind : {"response"}, status : Statuses, body : Bodies]
      \cup [kind : {"abort", "network"}, status : {0}, body : {"text"}]

\* The outcomes drawn when whole-component interleavings are explored: one
\* per branch of fetchCryptoData.
PollOutcomes ==
    {o \in Outcomes :
        \/ o.kind = "abort"
        \/ o.kind = "response" /\ o.status = 200 /\ o.body \in {"array1", "array2", "object"}
        \/ o.kind = "response" /\ o.status \in {403, 429, 500} /\ o.body = "text"}

\* ------------------------------------------------------------------- state
VARIABLES
    cryptocurrencies,   \* useState: body tag of the displayed dataset ("none" = [])
    error,              \* useState: visible error string, or Null
    loading,            \* useState
    retryCount,         \* useState
    lastUpdateTime,     \* useState: 0 = null, else a logical timestamp
    isUsingBackupAPI,   \* useState
    mounted,            \* the component is mounted
    jsonEngine,         \* the engine running the page, fixed for a run
    effects,            \* the instances of the polling effect, oldest first
    chains              \* the fetchCryptoData call chains, oldest first

vars == <<cryptocurrencies, error, loading, retryCount, lastUpdateTime,
          isUsingBackupAPI, mounted, jsonEngine, effects, chains>>

ui == <<cryptocurrencies, error, loading, retryCount, lastUpdateTime,
        isUsingBackupAPI>>

\* --------------------------------------------------------- response helpers
\* response.ok
ResponseOk(status) == status >= 200 /\ status <= 299

\* JSON.parse / response.json() succeeds on the body
IsJson(body) == body \notin TextBodies

\* The message of the SyntaxError thrown by response.json() (line 146) on a
\* text that fails at its first character.  V8 >= 11 quotes the whole text
\* when it is at most 20 characters long, else its first 10 characters.
SyntaxErrorMessage(engine, text) ==
    IF engine = "v8_10"
    THEN "Unexpected token " \o SubSeq(text, 1, 1) \o " in JSON at position 0"
    ELSE IF Len(text) > 20
    THEN "Unexpected token '" \o SubSeq(text, 1, 1) \o "', \""
            \o SubSeq(text, 1, 10) \o "\"... is not valid JSON"
    ELSE "Unexpected token '" \o SubSeq(text, 1, 1) \o "', \""
            \o text \o "\" is not valid JSON"

\* Array.isArray(data)
IsArray(body) == body \in {"array1", "array2", "empty"}

\* data.length
DataLength(body) ==
    CASE body = "array1" -> 3
      [] body = "array2" -> 2
      [] OTHER -> 0

\* errorJson?.error ("" when absent)
ErrorField(body) ==
    CASE body = "errRate" -> "Rate limit exceeded"
      [] body = "errDenied" -> "Access denied"
      [] body = "errInvalid" -> "Invalid data"
      [] body = "errOther" -> "Internal error"
      [] OTHER -> ""

\* `HTTP error! status: ${response.status}`
StatusMessage(status) == "HTTP error! status: " \o ToString(status)

\* errorMessage as computed at lines 109-119
ParsedErrorMessage(status, body) ==
    IF IsJson(body) /\ ErrorField(body) # ""
    THEN ErrorField(body)
    ELSE StatusMessage(status)

\* variant: the list without the access-denied entries
noRetryErrorsShort == <<"Invalid data", "Rate limit exceeded">>

noRetryErrors ==
    <<"Invalid data", "Rate limit exceeded", "Access denied", "API permissions">>

\* e occurs in s as a substring
Occurs(s, e) ==
    \E i \in 1..(Len(s) - Len(e) + 1) : SubSeq(s, i, i + Len(e) - 1) = e

\* The messages that reach line 187 for the inputs above, each with the
\* noRetryErrors entries that occur in it: the substring search is done
\* once per message.
KnownMessages ==
    {"Request timed out. Retrying...", "Failed to fetch",
     "Rate limit exceeded. Please try again in a few minutes.",
     "Access denied. Please check your API permissions.",
     "The requested data is not available.",
     "Invalid data format received from API",
     "No cryptocurrency data available"}
      \cup {StatusMessage(st) : st \in Statuses}
      \cup {ErrorField(b) : b \in Bodies}
      \cup {SyntaxErrorMessage(g, RawText(b)) : g \in JsonEngines, b \in TextBodies}

OccursIn ==
    [m \in KnownMessages |->
        {i \in DOMAIN noRetryErrors : Occurs(m, noRetryErrors[i])}]

\* errorMessage.includes(e)
Includes(errorMessage, e) ==
    IF /\ errorMessage \in KnownMessages
       /\ \E i \in DOMAIN noRetryErrors : noRetryErrors[i] = e
    THEN \E i \in OccursIn[errorMessage] : noRetryErrors[i] = e
    ELSE Occurs(errorMessage, e)

\* variant: the exponent is the retry index itself
BackoffDelayDoubled(retry) ==
    IF retry > 0 THEN INITIAL_RETRY_DELAY * (2 ^ retry) ELSE 0

\* delay at line 78
BackoffDelay(retry) ==
    IF retry > 0 THEN INITIAL_RETRY_DELAY * (2 ^ (retry - 1)) ELSE 0

\* `Retrying in ${delay/1000} seconds... (Attempt ${retry}/${MAX_RETRIES})`
RetryingMessage(retry) ==
    "Retrying in " \o ToString(BackoffDelay(retry) \div 1000)
      \o " seconds... (Attempt " \o ToString(retry) \o "/"
      \o ToString(MAX_RETRIES) \o ")"

\* retry < MAX_RETRIES in the 429 branch (line 123)
RateLimitRetryAllowed(retry) == retry < MAX_RETRIES

\* the retry decision of the catch block (line 187)
NoRetryMatch(errorMessage) ==
    \E i \in DOMAIN noRetryErrors : Includes(errorMessage, noRetryErrors[i])

\* variants of the retry guard: one retry too many, one too few
ShouldRetryOneMore(retry, errorMessage) ==
    retry <= MAX_RETRIES /\ ~ NoRetryMatch(errorMessage)

ShouldRetryOneLess(retry, errorMessage) ==
    retry < MAX_RETRIES - 1 /\ ~ NoRetryMatch(errorMessage)

ShouldRetry(retry, errorMessage) ==
    retry < MAX_RETRIES /\ ~ NoRetryMatch(errorMessage)

\* variant: a retry goes back to the primary endpoint
RetryUseBackupPrimary(useBackup) == FALSE

\* useBackup argument of a same-endpoint recursive call (lines 126, 189)
RetryUseBackup(useBackup) == useBackup

\* variant: the failover call keeps the attempt index
SwitchRetryKept(retry) == retry

\* retry argument of the failover calls fetchCryptoData(0, true)
\* (lines 134, 169)
SwitchRetry(retry) == 0

\* variant: any timeout on primary fails over
AbortSwitchAnyAttempt(retry, useBackup) == ~ useBackup

\* `!useBackup && retry === 0` (line 168)
AbortSwitch(retry, useBackup) == ~ useBackup /\ retry = 0

\* variant: the failure message stays visible during the retry wait
RetryVisibleErrorFirst(retry, errorMessage) == errorMessage

\* The error left visible by a retried failure: setError(errorMessage)
\* (line 177) is followed in the same task by the recursive call's
\* setError(`Retrying in ...`) (line 80), and the last write wins.
RetryVisibleError(retry, errorMessage) == RetryingMessage(retry + 1)

Thrown(name, message) == [t |-> "throw", name |-> name, message |-> message]
Taken(t) == [t |-> t, name |-> "", message |-> ""]

\* The try block after the request returns (lines 95-161): what it does with
\* outcome o when called with (retry, useBackup).
TryBlock(retry, useBackup, o) ==
    IF o.kind = "abort" THEN Thrown("AbortError", "The operation was aborted.")
    ELSE IF o.kind = "network" THEN Thrown("TypeError", "Failed to fetch")
    ELSE IF ~ ResponseOk(o.status) THEN
        IF o.status = 429 THEN
            IF RateLimitRetryAllowed(retry) THEN Taken("rateLimitRetry")
            ELSE Thrown("Error",
                        "Rate limit exceeded. Please try again in a few minutes.")
        ELSE IF o.status = 403 THEN
            IF ~ useBackup THEN Taken("forbiddenSwitch")
            ELSE Thrown("Error",
                        "Access denied. Please check your API permissions.")
        ELSE IF o.status = 404 THEN
            Thrown("Error", "The requested data is not available.")
        ELSE Thrown("Error", ParsedErrorMessage(o.status, o.body))
    ELSE IF ~ IsJson(o.body) THEN
        Thrown("SyntaxError", SyntaxErrorMessage(jsonEngine, RawText(o.body)))
    ELSE IF ~ IsArray(o.body) THEN
        Thrown("Error", "Invalid data format received from API")
    ELSE IF DataLength(o.body) = 0 THEN
        Thrown("Error", "No cryptocurrency data available")
    ELSE Taken("success")

\* The catch block (lines 162-191) for a thrown error.
CatchBlock(retry, useBackup, err) ==
    LET errorMessage == IF err.name = "AbortError"
                        THEN "Request timed out. Retrying..."
                        ELSE err.message
    IN  IF err.name = "AbortError" /\ AbortSwitch(retry, useBackup)
        THEN Taken("abortSwitch")
        ELSE IF ShouldRetry(retry, errorMessage)
        THEN [t |-> "retry", name |-> err.name, message |-> errorMessage]
        ELSE [t |-> "fail", name |-> err.name, message |-> errorMessage]

\* An HTTP 500 whose message matches none of noRetryErrors.
Transient500(o) ==
    /\ o.kind = "response"
    /\ o.status = 500
    /\ ~ NoRetryMatch(ParsedErrorMessage(o.status, o.body))

\* One attempt's handling, try and catch together.
Handle(retry, useBackup, o) ==
    LET r == TryBlock(retry, useBackup, o)
    IN  IF r.t = "throw" THEN CatchBlock(retry, useBackup, r) ELSE r


NoOutcome == [kind |-> "none", status |-> 0, body |-> "text"]

\* `!error`
Falsy(e) == e = Null \/ e = ""

\* A React state setter: a no-op once the component is unmounted.
SetState(old, new) == IF mounted THEN new ELSE old

\* fetchCryptoData(0, useBackup) called from effect instance eff: with
\* retry = 0 there is no sleep, so the call runs up to the first request.
NewChain(useBackup, eff, kind) ==
    [pc |-> "fetching", retry |-> 0, useBackup |-> useBackup,
     eff |-> eff, kind |-> kind, result |-> "pending",
     requests |-> 1, switches |-> 0, waited |-> 0, sleep |-> 0,
     status |-> 0,
     last |-> NoOutcome, lastRetry |-> 0, lastBackup |-> useBackup,
     n500 |-> 0]

\* The cleanup function of an effect instance (lines 208-212).
Cleanup(e) ==
    [e EXCEPT !.cleaned = TRUE,
              !.intervalId = IF e.intervalId # "undefined"
                             THEN "cleared" ELSE e.intervalId]

\* The body of the effect (lines 194-206): a new instance closing over the
\* rendered error and isUsingBackupAPI, whose initFetch calls
\* fetchCryptoData() with the default arguments (0, false).
RunEffect(prev) ==
    /\ effects' = Append(prev,
                         [error |-> error, isUsingBackupAPI |-> isUsingBackupAPI,
                          intervalId |-> "undefined", cleaned |-> FALSE])
    /\ chains' = Append(chains, NewChain(FALSE, Len(prev) + 1, "init"))

TotalRequests(cs) ==
    LET RECURSIVE Sum(_)
        Sum(i) == IF i = 0 THEN 0 ELSE cs[i].requests + Sum(i - 1)
    IN  Sum(Len(cs))

Init ==
    /\ cryptocurrencies = "none"
    /\ error = Null
    /\ loading = TRUE
    /\ retryCount = 0
    /\ lastUpdateTime = 0
    /\ isUsingBackupAPI = FALSE
    /\ mounted = TRUE
    /\ jsonEngine \in JsonEngines
    /\ effects = <<>>
    /\ chains = <<>>

\* First commit: the effect runs for the first time.
Mount ==
    /\ mounted
    /\ effects = <<>>
    /\ RunEffect(effects)
    /\ UNCHANGED <<ui, mounted, jsonEngine>>

\* A re-render after error or isUsingBackupAPI changed: the previous
\* instance's cleanup runs, then the effect runs again.
Rerender ==
    /\ mounted
    /\ effects # <<>>
    /\ Len(chains) < MaxCycles
    /\ LET cur == effects[Len(effects)]
       IN  /\ cur.error # error \/ cur.isUsingBackupAPI # isUsingBackupAPI
           /\ RunEffect([effects EXCEPT ![Len(effects)] = Cleanup(cur)])
    /\ UNCHANGED <<ui, mounted, jsonEngine>>

\* The component is removed: the current instance's cleanup runs.
Unmount ==
    /\ mounted
    /\ effects # <<>>
    /\ mounted' = FALSE
    /\ effects' = [effects EXCEPT ![Len(effects)] = Cleanup(effects[Len(effects)])]
    /\ UNCHANGED <<ui, chains, jsonEngine>>

\* The setInterval callback of instance e fires (line 201).
IntervalFire(e) ==
    /\ effects[e].intervalId = "armed"
    /\ Len(chains) < MaxCycles
    /\ chains' = Append(chains,
                        NewChain(effects[e].isUsingBackupAPI, e, "interval"))
    /\ UNCHANGED <<ui, mounted, jsonEngine, effects>>

\* initFetch resumes after `await fetchCryptoData()` (lines 199-203); it
\* runs in the microtask that follows the chain's settlement.
AfterSettle(ch) ==
    IF ch.kind = "init" /\ Falsy(effects[ch.eff].error)
    THEN [effects EXCEPT ![ch.eff].intervalId = "armed"]
    ELSE effects

\* A recursive call fetchCryptoData(retry, useBackup) made by chain ch, up
\* to its first await: the backoff sleep when retry > 0, else the request.
Enter(ch, retry, useBackup) ==
    IF retry > 0
    THEN [ch EXCEPT !.retry = retry, !.useBackup = useBackup,
                    !.pc = "backoff", !.sleep = BackoffDelay(retry)]
    ELSE [ch EXCEPT !.retry = retry, !.useBackup = useBackup,
                    !.pc = "fetching", !.requests = @ + 1, !.sleep = 0,
                    !.switches = IF useBackup # ch.useBackup THEN @ + 1 ELSE @]

\* Chain c handles outcome o of its attempt: the rest of the try block and
\* the catch block (lines 108-191), up to the next await or to the end of
\* the chain.
HandleOutcome(c, o) ==
    /\ LET ch == [chains[c] EXCEPT !.last = o, !.lastRetry = chains[c].retry,
                                   !.status = 0,
                                   !.lastBackup = chains[c].useBackup,
                                   !.waited = 0,
                                   !.n500 = IF Transient500(o) THEN @ + 1 ELSE @]
           r == Handle(ch.retry, ch.useBackup, o)
       IN  CASE r.t = "success" ->
                  /\ cryptocurrencies' = SetState(cryptocurrencies, o.body)
                  /\ error' = SetState(error, Null)
                  /\ loading' = SetState(loading, FALSE)
                  /\ retryCount' = SetState(retryCount, 0)
                  /\ lastUpdateTime' = SetState(lastUpdateTime, lastUpdateTime + 1)
                  /\ isUsingBackupAPI' = SetState(isUsingBackupAPI, ch.useBackup)
                  /\ chains' = [chains EXCEPT ![c] =
                                   [ch EXCEPT !.pc = "done", !.result = "Succeeded"]]
                  /\ effects' = AfterSettle(ch)
             [] r.t = "rateLimitRetry" ->
                  /\ retryCount' = SetState(retryCount, ch.retry + 1)
                  /\ chains' = [chains EXCEPT ![c] =
                                   [ch EXCEPT !.pc = "rateLimitSleep",
                                              !.sleep = RATE_LIMIT_DELAY]]
                  /\ UNCHANGED <<cryptocurrencies, error, loading, lastUpdateTime,
                                 isUsingBackupAPI, effects>>
             [] r.t = "forbiddenSwitch" ->
                  /\ isUsingBackupAPI' = SetState(isUsingBackupAPI, TRUE)
                  /\ chains' = [chains EXCEPT ![c] =
                                   Enter(ch, SwitchRetry(ch.retry), TRUE)]
                  /\ UNCHANGED <<cryptocurrencies, error, loading, retryCount,
                                 lastUpdateTime, effects>>
             [] r.t = "abortSwitch" ->
                  /\ chains' = [chains EXCEPT ![c] =
                                   Enter(ch, SwitchRetry(ch.retry), TRUE)]
                  /\ UNCHANGED <<ui, effects>>
             [] r.t = "retry" ->
                  /\ error' = SetState(error, RetryVisibleError(ch.retry, r.message))
                  /\ loading' = SetState(loading, FALSE)
                  /\ retryCount' = SetState(retryCount, ch.retry + 1)
                  /\ chains' = [chains EXCEPT ![c] =
                                   Enter(ch, ch.retry + 1, RetryUseBackup(ch.useBackup))]
                  /\ UNCHANGED <<cryptocurrencies, lastUpdateTime,
                                 isUsingBackupAPI, effects>>
             [] r.t = "fail" ->
                  /\ error' = SetState(error, r.message)
                  /\ loading' = SetState(loading, FALSE)
                  /\ chains' = [chains EXCEPT ![c] =
                                   [ch EXCEPT !.pc = "done", !.result = "Failed"]]
                  /\ effects' = AfterSettle(ch)
                  /\ UNCHANGED <<cryptocurrencies, retryCount, lastUpdateTime,
                                 isUsingBackupAPI>>
    /\ UNCHANGED <<mounted, jsonEngine>>

\* fetch rejects (lines 70-72, then the catch block at line 162): the 20 s
\* deadline aborted it, or the transport failed.
FetchFails(c, o) ==
    /\ chains[c].pc = "fetching"
    /\ o.kind \in {"abort", "network"}
    /\ HandleOutcome(c, o)

\* fetch resolves with a response (lines 64-69, 95): the deadline timer is
\* cleared and the chain awaits the body, response.text() (line 109) or
\* response.json() (line 146).
FetchResolves(c, status) ==
    /\ chains[c].pc = "fetching"
    /\ chains' = [chains EXCEPT ![c] = [@ EXCEPT !.pc = "reading",
                                                 !.status = status]]
    /\ UNCHANGED <<ui, mounted, jsonEngine, effects>>

\* The body has been read (lines 109-161, and the catch block).
BodyRead(c, body) ==
    /\ chains[c].pc = "reading"
    /\ HandleOutcome(c, [kind |-> "response", status |-> chains[c].status,
                         body |-> body])

\* `await sleep(5000)` of the 429 branch ends (lines 125-126): the recursive
\* call fetchCryptoData(retry + 1, useBackup) runs up to its own sleep.
RateLimitSleepDone(c) ==
    /\ chains[c].pc = "rateLimitSleep"
    /\ LET ch == [chains[c] EXCEPT !.waited = @ + chains[c].sleep]
       IN  /\ error' = SetState(error, RetryingMessage(ch.retry + 1))
           /\ chains' = [chains EXCEPT ![c] =
                            Enter(ch, ch.retry + 1, RetryUseBackup(ch.useBackup))]
    /\ UNCHANGED <<cryptocurrencies, loading, retryCount, lastUpdateTime,
                   isUsingBackupAPI, mounted, jsonEngine, effects>>

\* `await sleep(delay)` at entry ends (line 81): the request is issued.
BackoffDone(c) ==
    /\ chains[c].pc = "backoff"
    /\ chains' = [chains EXCEPT ![c] =
                     [@ EXCEPT !.pc = "fetching", !.requests = @ + 1,
                               !.waited = @ + chains[c].sleep, !.sleep = 0]]
    /\ UNCHANGED <<ui, mounted, jsonEngine, effects>>

\* One chain on its own, every outcome possible at every attempt.
NextCycle ==
    \/ Mount
    \/ \E c \in DOMAIN chains, o \in Outcomes : FetchFails(c, o)
    \/ \E c \in DOMAIN chains, status \in Statuses : FetchResolves(c, status)
    \/ \E c \in DOMAIN chains, body \in Bodies : BodyRead(c, body)
    \/ \E c \in DOMAIN chains : RateLimitSleepDone(c)
    \/ \E c \in DOMAIN chains : BackoffDone(c)

SpecCycle == Init /\ [][NextCycle]_vars


\* The whole component: effect re-runs, interval firings and unmount
\* interleaved with the chains, within MaxCycles chains and MaxRequests
\* requests.
Next ==
    \/ Mount
    \/ Rerender /\ TotalRequests(chains') <= MaxRequests
    \/ Unmount
    \/ \E e \in DOMAIN effects :
          IntervalFire(e) /\ TotalRequests(chains') <= MaxRequests
    \/ \E c \in DOMAIN chains, o \in PollOutcomes :
          FetchFails(c, o) /\ TotalRequests(chains') <= MaxRequests
    \/ \E c \in DOMAIN chains, o \in PollOutcomes :
          o.kind = "response" /\ FetchResolves(c, o.status)
    \/ \E c \in DOMAIN chains, o \in PollOutcomes :
          /\ o.kind = "response"
          /\ o.status = chains[c].status
          /\ BodyRead(c, o.body)
          /\ TotalRequests(chains') <= MaxRequests
    \/ \E c \in DOMAIN chains : RateLimitSleepDone(c)
    \/ \E c \in DOMAIN chains :
          BackoffDone(c) /\ TotalRequests(chains') <= MaxRequests

Spec == Init /\ [][Next]_vars


\* ------------------------------------------------------------ properties
Settled(ch) == ch.pc = "done"

\* responses received so far by a chain
Responses(ch) ==
    IF ch.pc \in {"fetching", "reading"} THEN ch.requests - 1 ELSE ch.requests

\* the current effect instance is out of date with the rendered state
RerenderPending ==
    /\ effects # <<>>
    /\ \/ effects[Len(effects)].error # error
       \/ effects[Len(effects)].isUsingBackupAPI # isUsingBackupAPI

\* C1: no two poll cycles run concurrently: at most one chain is unsettled
\* at any time.
C1_NoConcurrentCycles ==
    Cardinality({c \in DOMAIN chains : ~ Settled(chains[c])}) <= 1

\* C2: after an attempt that receives HTTP 404 the cycle is Failed and no
\* further request is issued in it.
C2_NotFoundTerminates ==
    \A c \in DOMAIN chains :
        (chains[c].last.kind = "response" /\ chains[c].last.status = 404)
            => (Settled(chains[c]) /\ chains[c].result = "Failed")

\* a 2xx response whose parsed body is not a sequence or is an empty one
Malformed(o) ==
    /\ o.kind = "response"
    /\ ResponseOk(o.status)
    /\ IsJson(o.body)
    /\ (~ IsArray(o.body) \/ DataLength(o.body) = 0)

\* C3: after a Malformed response (2xx, body not a sequence or an empty
\* sequence) the cycle is Failed with zero retries.
C3_MalformedTerminates ==
    \A c \in DOMAIN chains :
        Malformed(chains[c].last)
            => (Settled(chains[c]) /\ chains[c].result = "Failed")

\* C4: the request that follows an HTTP 429 received at n < MAX_RETRIES is
\* issued after exactly 5000 ms, with n + 1, on the same endpoint.
C4_RateLimitFixedDelay ==
    \A c \in DOMAIN chains :
        ( /\ chains[c].pc = "fetching"
          /\ chains[c].last.kind = "response"
          /\ chains[c].last.status = 429
          /\ chains[c].lastRetry < MAX_RETRIES )
            => ( /\ chains[c].waited = RATE_LIMIT_DELAY
                 /\ chains[c].retry = chains[c].lastRetry + 1
                 /\ chains[c].useBackup = chains[c].lastBackup )

\* C5: the attempt count n of a cycle never exceeds MAX_RETRIES, also after
\* the switch to backup has reset it to 0.
C5_AttemptCountBounded ==
    \A c \in DOMAIN chains : chains[c].retry \in 0..MAX_RETRIES

\* C5 witness: a cycle that switched to backup, climbed to n = MAX_RETRIES
\* there and was refused a further retry.
C5_Witness ==
    \E c \in DOMAIN chains :
        /\ chains[c].switches = 1
        /\ chains[c].retry = MAX_RETRIES
        /\ chains[c].result = "Failed"
        /\ Transient500(chains[c].last)

\* C6 as stated: after five consecutive HTTP 500 responses the cycle is
\* Failed and has issued five requests.
C6_FailedAfterFive ==
    \A c \in DOMAIN chains :
        (chains[c].n500 = 5 /\ Responses(chains[c]) = 5)
            => ( /\ Settled(chains[c])
                 /\ chains[c].result = "Failed"
                 /\ chains[c].requests = 5 )

\* C6 amended: a cycle whose responses are all HTTP 500 is still pending,
\* with n = the number of responses, after each of the first MAX_RETRIES;
\* the (MAX_RETRIES + 1)-th makes it Failed with n = MAX_RETRIES, and no
\* further request is issued.
C6_FailedAfterSix ==
    \A c \in DOMAIN chains :
        LET ch == chains[c]
        IN  (ch.n500 = Responses(ch) /\ Responses(ch) >= 1)
              => IF Responses(ch) <= MAX_RETRIES
                 THEN ch.result = "pending" /\ ch.retry = Responses(ch)
                 ELSE /\ Settled(ch)
                      /\ ch.result = "Failed"
                      /\ ch.retry = MAX_RETRIES
                      /\ ch.requests = MAX_RETRIES + 1

\* C6 witness: a cycle Failed by its sixth consecutive HTTP 500.
C6_Witness ==
    \E c \in DOMAIN chains :
        /\ chains[c].n500 = MAX_RETRIES + 1
        /\ chains[c].requests = MAX_RETRIES + 1
        /\ chains[c].result = "Failed"

\* C7: once an effect instance's cleanup has run, no interval timer created
\* by that instance is armed.
C7_NoTimerAfterCleanup ==
    \A e \in DOMAIN effects :
        effects[e].cleaned => effects[e].intervalId # "armed"

\* C8: while the component is mounted, once every started cycle has settled
\* (and no effect re-run is pending) a next-cycle timer is armed.
C8_PollingContinues ==
    ( /\ mounted
      /\ chains # <<>>
      /\ \A c \in DOMAIN chains : Settled(chains[c])
      /\ ~ RerenderPending )
        => \E e \in DOMAIN effects : effects[e].intervalId = "armed"

\* C9: when the cycles settled so far all ended on the backup endpoint, a
\* cycle newly started by the mounted component makes its first attempt on
\* backup.
C9_NextCycleStartsOnBackup ==
    [][ ( /\ mounted
          /\ Len(chains') = Len(chains) + 1
          /\ \E c \in DOMAIN chains : Settled(chains[c])
          /\ \A c \in DOMAIN chains :
                Settled(chains[c]) => chains[c].useBackup )
            => chains'[Len(chains')].useBackup ]_vars

\* C10: within a cycle the endpoint never goes back from backup to primary,
\* and it switches at most once.
C10_EndpointMonotone ==
    [][ \A c \in DOMAIN chains :
            /\ chains[c].useBackup => chains'[c].useBackup
            /\ chains'[c].switches <= 1 ]_vars

\* C10 witness: a cycle that switched to backup and is on a later retry
\* there.
C10_Witness ==
    \E c \in DOMAIN chains :
        /\ chains[c].switches = 1
        /\ chains[c].useBackup
        /\ chains[c].retry >= 2
        /\ chains[c].pc = "fetching"


\* the retry-progress notices
RetryNotices == {RetryingMessage(k) : k \in 1..MAX_RETRIES}

\* C11: while a cycle is not settled the visible error is null or a
\* retry-progress notice; a failure message is visible only once the cycle
\* has settled Failed.
C11_OnlyTerminalSurfaced ==
    \A c \in DOMAIN chains :
        chains[c].result = "pending" => error \in {Null} \cup RetryNotices

\* C11 witness: a cycle waiting to retry after a transient failure, the
\* notice of that retry visible.
C11_Witness ==
    \E c \in DOMAIN chains :
        /\ chains[c].pc = "backoff"
        /\ Transient500(chains[c].last)
        /\ chains[c].retry >= 2
        /\ error = RetryingMessage(chains[c].retry)


\* C12: a step of a cycle whose owning effect instance has been cleaned up
\* changes none of the visible state and issues no request.
C12_TornDownCycleIgnored ==
    [][ \A c \in DOMAIN chains :
            (effects[chains[c].eff].cleaned /\ chains'[c] # chains[c])
                => /\ cryptocurrencies' = cryptocurrencies
                   /\ error' = error
                   /\ lastUpdateTime' = lastUpdateTime
                   /\ isUsingBackupAPI' = isUsingBackupAPI
                   /\ chains'[c].requests = chains[c].requests ]_vars

\* a non-2xx response other than 429, 403 and 404
OtherNon2xx(o) ==
    /\ o.kind = "response"
    /\ ~ ResponseOk(o.status)
    /\ o.status \notin {429, 403, 404}

\* C13: after a non-2xx response other than 429, 403 and 404 received at
\* n < MAX_RETRIES, whatever its error body, the cycle stays pending and
\* retries with n + 1 on the same endpoint.
C13_OtherStatusTransient ==
    \A c \in DOMAIN chains :
        (OtherNon2xx(chains[c].last) /\ chains[c].lastRetry < MAX_RETRIES)
            => /\ chains[c].result = "pending"
               /\ chains[c].retry = chains[c].lastRetry + 1
               /\ chains[c].useBackup = chains[c].lastBackup


\* chain c has just handled a response with this status
JustReceived(c, status) ==
    /\ chains[c].pc = "reading"
    /\ chains'[c] # chains[c]
    /\ chains'[c].last.kind = "response"
    /\ chains'[c].last.status = status

\* C14: an HTTP 403 received on primary, at any n, is followed at once by
\* a request to backup with n = 0; a valid non-empty array returned by that
\* request settles the cycle Succeeded with the backup endpoint recorded.
C14_ForbiddenFailsOver ==
    [][ \A c \in DOMAIN chains :
            /\ (JustReceived(c, 403) /\ ~ chains[c].useBackup)
                  => /\ chains'[c].pc = "fetching"
                     /\ chains'[c].useBackup
                     /\ chains'[c].retry = 0
                     /\ chains'[c].waited = 0
                     /\ chains'[c].requests = chains[c].requests + 1
            /\ ( /\ JustReceived(c, 200)
                 /\ chains[c].last.kind = "response"
                 /\ chains[c].last.status = 403
                 /\ IsArray(chains'[c].last.body)
                 /\ DataLength(chains'[c].last.body) > 0 )
                  => /\ chains'[c].result = "Succeeded"
                     /\ chains'[c].useBackup
                     /\ isUsingBackupAPI'
                     /\ cryptocurrencies' = chains'[c].last.body ]_vars

\* C14 witness: a 403 received on primary at a later attempt, the request
\* to backup under way.
C14_Witness ==
    \E c \in DOMAIN chains :
        /\ chains[c].last.kind = "response"
        /\ chains[c].last.status = 403
        /\ ~ chains[c].lastBackup
        /\ chains[c].lastRetry >= 2
        /\ chains[c].pc = "fetching"
        /\ chains[c].useBackup

\* C15: after an HTTP 403 received on backup, at any n, the cycle is Failed
\* with the access-denied message and issues no further request.
C15_ForbiddenOnBackupTerminal ==
    \A c \in DOMAIN chains :
        ( /\ chains[c].last.kind = "response"
          /\ chains[c].last.status = 403
          /\ chains[c].lastBackup )
            => /\ Settled(chains[c])
               /\ chains[c].result = "Failed"
               /\ error = "Access denied. Please check your API permissions."

\* C15 witness: a cycle Failed by a 403 on backup at an attempt that still
\* had retries left.
C15_Witness ==
    \E c \in DOMAIN chains :
        /\ chains[c].last.kind = "response"
        /\ chains[c].last.status = 403
        /\ chains[c].lastBackup
        /\ chains[c].lastRetry \in 1..(MAX_RETRIES - 1)
        /\ chains[c].result = "Failed"


\* the state of a chain that is retrying its last attempt, received at
\* lastRetry, on the same endpoint with the backoff of the next index:
\* either still asleep or with the next request issued after that sleep
RetryingSameEndpoint(ch, delay) ==
    /\ ch.result = "pending"
    /\ ch.retry = ch.lastRetry + 1
    /\ ch.useBackup = ch.lastBackup
    /\ \/ ch.pc = "backoff" /\ ch.sleep = delay /\ ch.waited = 0
       \/ ch.pc \in {"fetching", "reading"} /\ ch.waited = delay

\* 2000, 4000, 8000, 16000, 32000 ms for the retries 1..5
TransientWait == <<2000, 4000, 8000, 16000, 32000>>

\* C16: a timeout at n = 0 on primary is followed at once by a request to
\* backup with n = 0; any other timeout is retried on the same endpoint
\* with backoff while n < MAX_RETRIES, and otherwise fails the cycle.
C16_TimeoutRule ==
    \A c \in DOMAIN chains :
        LET ch == chains[c]
        IN  ch.last.kind = "abort"
              => IF ch.lastRetry = 0 /\ ~ ch.lastBackup
                 THEN /\ ch.pc \in {"fetching", "reading"}
                      /\ ch.useBackup
                      /\ ch.retry = 0
                      /\ ch.waited = 0
                 ELSE IF ch.lastRetry < MAX_RETRIES
                 THEN RetryingSameEndpoint(ch, TransientWait[ch.lastRetry + 1])
                 ELSE Settled(ch) /\ ch.result = "Failed"

\* C16 witness: a timeout on primary at a later attempt, retried on
\* primary after the backoff.
C16_Witness ==
    \E c \in DOMAIN chains :
        /\ chains[c].last.kind = "abort"
        /\ chains[c].lastRetry >= 1
        /\ ~ chains[c].lastBackup
        /\ chains[c].pc = "fetching"
        /\ ~ chains[c].useBackup

\* C17: in a cycle whose failures are all transient (HTTP 500), the request
\* after the k-th failed response is issued INITIAL_RETRY_DELAY * 2^(k-1)
\* ms after it (2000 .. 32000 for k = 1..5), on the same endpoint.
C17_TransientBackoff ==
    \A c \in DOMAIN chains :
        LET ch == chains[c]
            k == Responses(ch)
        IN  (ch.n500 = k /\ k \in 1..MAX_RETRIES)
              => /\ RetryingSameEndpoint(ch, TransientWait[k])
                 /\ TransientWait[k] = INITIAL_RETRY_DELAY * (2 ^ (k - 1))

\* C17 witness: the request after the fifth transient failure, issued
\* 32000 ms after it.
C17_Witness ==
    \E c \in DOMAIN chains :
        /\ chains[c].n500 = MAX_RETRIES
        /\ Responses(chains[c]) = MAX_RETRIES
        /\ chains[c].pc = "fetching"
        /\ chains[c].waited = 32000


\* C18: a cycle that settles Failed leaves the dataset, the last-update
\* timestamp and the recorded endpoint as they were when it started (here:
\* their initial values) and leaves its failure message as the visible
\* error.
C18_FailedCyclePreservesView ==
    \A c \in DOMAIN chains :
        chains[c].result = "Failed"
            => /\ cryptocurrencies = "none"
               /\ lastUpdateTime = 0
               /\ isUsingBackupAPI = FALSE
               /\ error \notin {Null} \cup RetryNotices

\* the most recently started cycle among those that Succeeded
LastSucceeded ==
    CHOOSE c \in DOMAIN chains :
        /\ chains[c].result = "Succeeded"
        /\ \A d \in DOMAIN chains :
              chains[d].result = "Succeeded" => d <= c

\* C19: while the component is mounted and some cycle has Succeeded, the
\* visible dataset and the recorded endpoint are those of the most recently
\* started successful cycle.
C19_StoreReflectsLatestSuccess ==
    (mounted /\ \E c \in DOMAIN chains : chains[c].result = "Succeeded")
        => /\ cryptocurrencies = chains[LastSucceeded].last.body
           /\ isUsingBackupAPI = chains[LastSucceeded].useBackup


\* position of a chain inside one attempt: the sleep before the request,
\* the request, the reading of the body, the rate-limit sleep after it
StageRank(pc) ==
    CASE pc = "backoff" -> 4
      [] pc = "fetching" -> 3
      [] pc = "reading" -> 2
      [] pc = "rateLimitSleep" -> 1
      [] OTHER -> 0

\* A measure of the work a chain has left: the endpoint switch still
\* available, the retries left on the current endpoint, the stage.
Rank(ch) ==
    IF ch.pc = "done" THEN 0
    ELSE (IF ch.useBackup THEN 0 ELSE 4 * (MAX_RETRIES + 1) + 1)
           + 4 * (MAX_RETRIES - ch.retry) + StageRank(ch.pc)

\* 2 * (MAX_RETRIES + 1) = 12
MaxChainRequests == 2 * (MAX_RETRIES + 1)

\* C20: every step of a cycle strictly lowers a non-negative measure (n
\* rises on a same-endpoint retry and is reset only by the one switch to
\* backup), an unsettled cycle is always waiting for a request, a body or a
\* timer,
\* and a cycle issues at most 12 requests: every cycle settles.
C20_EveryCycleSettles ==
    [][ \A c \in DOMAIN chains :
            chains'[c] # chains[c]
                => /\ Rank(chains'[c]) < Rank(chains[c])
                   /\ Rank(chains'[c]) >= 0
                   /\ chains'[c].requests <= MaxChainRequests
                   /\ MaxChainRequests = 12
                   /\ \/ chains'[c].result \in {"Succeeded", "Failed"}
                      \/ chains'[c].pc \in {"backoff", "fetching", "reading",
                                            "rateLimitSleep"} ]_vars

\* C20 witness: a cycle settled by the response to its twelfth request.
C20_Witness ==
    \E c \in DOMAIN chains :
        /\ chains[c].requests = 12
        /\ Settled(chains[c])
        /\ chains[c].result \in {"Succeeded", "Failed"}

====
